---------------------------- MODULE Spec2Model ----------------------------
(***************************************************************************)
(* A model of the Seriate mail extension: the cosine-distance / greedy     *)
(* nearest-neighbour ordering of lib/seriation.js, the IndexedDB embedding *)
(* cache of lib/db.js, the OpenAI client (fetchEmbeddings), the            *)
(* background orchestrator (handleSeriate) and the column's rank map.      *)
(*                                                                         *)
(* Specifications:                                                         *)
(*   SpecSeriate  seriate() run statement by statement on every input      *)
(*                drawn from Vectors, up to MaxN vectors;                  *)
(*   Spec         the background script: up to MaxRuns overlapping         *)
(*                handleSeriate() calls against one folder, one store,     *)
(*                one provider and one column;                             *)
(*   SpecCancel   one handleSeriate() call and a request to cancel it;     *)
(*   SpecStore    the functions of lib/db.js called on their own;          *)
(*   SpecFetch    fetchEmbeddings() called on its own;                     *)
(*   SpecColumn   setRanks / clearRanks of the column called on their own. *)
(***************************************************************************)
EXTENDS Integers, Sequences, FiniteSets, TLC

(***************************************************************************)
(* Numbers.  JavaScript numbers are IEEE-754 doubles.  The model keeps the *)
(* three kinds of value a double can be: finite (an exact fraction n/d),   *)
(* +-Infinity and NaN.  The finite range is narrowed from 1.8e308 to       *)
(* MaxFinite so that overflow is reachable; rounding is not modelled (all  *)
(* finite results of the modelled inputs are exact fractions whose order   *)
(* the rounding of doubles preserves).                                     *)
(***************************************************************************)
MaxFinite == 1000

\* A component whose square overflows the finite range (as 1e200 does for doubles).
Big == 40

NaN == [k |-> "nan", n |-> 0, d |-> 1]

Inf(s) == [k |-> "inf", n |-> s, d |-> 1]

Infinity == Inf(1)

Abs(i) == IF i < 0 THEN -i ELSE i

RECURSIVE GCD(_, _)
GCD(a, b) == IF b = 0 THEN a ELSE GCD(b, a % b)

\* The double nearest to n/d (d > 0): the fraction itself, or an infinity on overflow.
Round(n, d) ==
  IF n > MaxFinite * d THEN Inf(1)
  ELSE IF -n > MaxFinite * d THEN Inf(-1)
  ELSE LET g == GCD(Abs(n), d)
       IN  [k |-> "fin", n |-> n \div g, d |-> d \div g]

Num(i) == Round(i, 1)

Sign(x) == IF x.n > 0 THEN 1 ELSE IF x.n < 0 THEN -1 ELSE 0

IsZero(x) == x.k = "fin" /\ x.n = 0

Neg(x) == [x EXCEPT !.n = -x.n]

Mul(x, y) ==
  IF x.k = "nan" \/ y.k = "nan" THEN NaN
  ELSE IF x.k = "inf" \/ y.k = "inf"
       THEN IF IsZero(x) \/ IsZero(y) THEN NaN ELSE Inf(Sign(x) * Sign(y))
       ELSE Round(x.n * y.n, x.d * y.d)

Add(x, y) ==
  IF x.k = "nan" \/ y.k = "nan" THEN NaN
  ELSE IF x.k = "inf" /\ y.k = "inf" THEN (IF x.n = y.n THEN x ELSE NaN)
  ELSE IF x.k = "inf" THEN x
  ELSE IF y.k = "inf" THEN y
  ELSE Round(x.n * y.d + y.n * x.d, x.d * y.d)

Sub(x, y) == Add(x, Neg(y))

Div(x, y) ==
  IF x.k = "nan" \/ y.k = "nan" THEN NaN
  ELSE IF x.k = "inf" /\ y.k = "inf" THEN NaN
  ELSE IF x.k = "inf" THEN Inf(IF Sign(y) < 0 THEN -x.n ELSE x.n)
  ELSE IF y.k = "inf" THEN Num(0)
  ELSE IF IsZero(y) THEN (IF IsZero(x) THEN NaN ELSE Inf(Sign(x)))
  ELSE Round(x.n * y.d * Sign(y), x.d * Abs(y.n))

\* Math.sqrt; the modelled inputs only reach perfect squares, whose root is exact.
Sqrt(x) ==
  IF x.k = "nan" THEN NaN
  ELSE IF x.k = "inf" THEN (IF x.n > 0 THEN Infinity ELSE NaN)
  ELSE IF x.n < 0 THEN NaN
  ELSE Num(CHOOSE r \in 0..x.n : r * r * x.d = x.n)

\* The === of JavaScript on numbers: false whenever an operand is NaN.
Eq(x, y) == x.k # "nan" /\ y.k # "nan" /\ x = y

\* The < of JavaScript: false whenever an operand is NaN.
Lt(x, y) ==
  IF x.k = "nan" \/ y.k = "nan" THEN FALSE
  ELSE IF x.k = "fin" /\ y.k = "fin" THEN x.n * y.d < y.n * x.d
  ELSE IF x.k = "inf" /\ y.k = "inf" THEN x.n < y.n
  ELSE IF x.k = "inf" THEN x.n < 0
  ELSE y.n > 0

(***************************************************************************)
(* Embedding vectors are sequences of integer-valued components.  The      *)
(* value undefined (a missing array element) is the empty sequence: no     *)
(* modelled vector has dimension 0.                                        *)
(***************************************************************************)
undefined == << >>

\* b[i] of JavaScript (i 1-based here): past the end it is undefined, NaN in arithmetic.
Elem(b, i) == IF i <= Len(b) THEN Num(b[i]) ELSE NaN

\* cosineDistance raises a TypeError: a.length of undefined, or b[0] of undefined.
cosineDistanceThrows(a, b) == a = undefined \/ b = undefined

RECURSIVE cosineSums(_, _, _, _)
cosineSums(a, b, i, acc) ==
  IF i > Len(a) THEN acc
  ELSE cosineSums(a, b, i + 1,
         [dot   |-> Add(acc.dot, Mul(Num(a[i]), Elem(b, i))),
          normA |-> Add(acc.normA, Mul(Num(a[i]), Num(a[i]))),
          normB |-> Add(acc.normB, Mul(Elem(b, i), Elem(b, i)))])

cosineDistance(a, b) ==
  LET s     == cosineSums(a, b, 1, [dot |-> Num(0), normA |-> Num(0), normB |-> Num(0)])
      denom == Mul(Sqrt(s.normA), Sqrt(s.normB))
  IN  IF IsZero(denom) THEN Num(1)
      ELSE Sub(Num(1), Div(s.dot, denom))

\* Indices are 0-based as in the source; embeddings[i] is the sequence's element i + 1.
buildDistanceMatrix(embeddings) ==
  LET n == Len(embeddings)
  IN  [i \in 0..(n - 1) |->
        [j \in 0..(n - 1) |->
          IF i = j THEN Num(0)
          ELSE IF i < j THEN cosineDistance(embeddings[i + 1], embeddings[j + 1])
          ELSE cosineDistance(embeddings[j + 1], embeddings[i + 1])]]

buildDistanceMatrixThrows(embeddings) ==
  \E i, j \in 1..Len(embeddings) :
    i < j /\ cosineDistanceThrows(embeddings[i], embeddings[j])

(***************************************************************************)
(* seriate (lib/seriation.js).  L is the state of the while loop: order,   *)
(* visited, current, and whether a TypeError was raised.                   *)
(***************************************************************************)

\* The for loop over j = from..n-1 of one while iteration; yields bestIdx,
\* or raises when dist[current] is undefined (current = -1) and is indexed.
RECURSIVE scan(_, _, _, _, _, _, _)
scan(dist, visited, current, n, j, bestIdx, bestDist) ==
  IF j >= n THEN [threw |-> FALSE, bestIdx |-> bestIdx]
  ELSE IF j \in visited THEN scan(dist, visited, current, n, j + 1, bestIdx, bestDist)
  ELSE IF current \notin DOMAIN dist THEN [threw |-> TRUE, bestIdx |-> bestIdx]
  ELSE IF Lt(dist[current][j], bestDist)
       THEN scan(dist, visited, current, n, j + 1, j, dist[current][j])
       ELSE scan(dist, visited, current, n, j + 1, bestIdx, bestDist)

\* let bestIdx = -1; let bestDist = Infinity; for (...) {...}
nearest(dist, visited, current, n) == scan(dist, visited, current, n, 0, -1, Infinity)

\* One iteration of while (order.length < n).
seriateIter(dist, n, L) ==
  LET best == nearest(dist, L.visited, L.current, n)
  IN  IF best.threw THEN [L EXCEPT !.threw = TRUE]
      ELSE [order   |-> Append(L.order, best.bestIdx),
            visited |-> L.visited \cup {best.bestIdx},
            current |-> best.bestIdx,
            threw   |-> FALSE]

RECURSIVE seriateLoop(_, _, _)
seriateLoop(dist, n, L) ==
  IF L.threw \/ Len(L.order) >= n THEN L
  ELSE seriateLoop(dist, n, seriateIter(dist, n, L))

\* visited = {0}, order = [0], current = 0
seriateStart == [order |-> <<0>>, visited |-> {0}, current |-> 0, threw |-> FALSE]

\* A seriate whose early return gives the empty ordering for one vector too.
seriateEmptyForOne(embeddings) ==
  LET n == Len(embeddings)
  IN  IF n <= 1 THEN [threw |-> FALSE, order |-> << >>]
      ELSE IF buildDistanceMatrixThrows(embeddings) THEN [threw |-> TRUE, order |-> << >>]
      ELSE LET L == seriateLoop(buildDistanceMatrix(embeddings), n, seriateStart)
           IN  [threw |-> L.threw, order |-> IF L.threw THEN << >> ELSE L.order]

\* The call as a whole: the ordering returned, or threw when a TypeError escapes.
seriate(embeddings) ==
  LET n == Len(embeddings)
  IN  IF n <= 1 THEN [threw |-> FALSE, order |-> IF n = 1 THEN <<0>> ELSE << >>]
      ELSE IF buildDistanceMatrixThrows(embeddings) THEN [threw |-> TRUE, order |-> << >>]
      ELSE LET L == seriateLoop(buildDistanceMatrix(embeddings), n, seriateStart)
           IN  [threw |-> L.threw, order |-> IF L.threw THEN << >> ELSE L.order]

(***************************************************************************)
(* Bounds and inputs of SpecSeriate.                                       *)
(***************************************************************************)
MaxN == 3

\* Two-dimensional vectors with norms 0, 1, 5 and one whose norm overflows.
Vectors == { <<1, 0>>, <<0, 1>>, <<3, 4>>, <<0, 0>>, <<-1, 0>>, <<Big, 0>> }

RECURSIVE SeqsUpTo(_, _)
SeqsUpTo(S, n) ==
  IF n = 0 THEN { << >> }
  ELSE LET shorter == SeqsUpTo(S, n - 1)
       IN  shorter \cup { Append(s, x) : s \in { t \in shorter : Len(t) = n - 1 }, x \in S }

VARIABLES embeddings, order, visited, current, spc

svars == <<embeddings, order, visited, current, spc>>

(***************************************************************************)
(* The background script.  A folder of messages, the IndexedDB store, the  *)
(* embedding provider, the column's rank map, and up to MaxRuns calls of   *)
(* handleSeriate, which interleave at their awaits.                        *)
(***************************************************************************)
MaxRuns == 2

MaxItems == 3

\* const EMBEDDING_BATCH_SIZE = 100, scaled down so that a fetch of MaxItems
\* texts needs more than one provider request.
EMBEDDING_BATCH_SIZE == 2

Runs == 1..MaxRuns

\* The messages a folder may hold: a Message-ID header and the text extracted
\* from the message.  A folder may hold the same message more than once (copies).
Pool ==
  { [headerMessageId |-> "A", text |-> "a"],
    [headerMessageId |-> "B", text |-> "b"],
    [headerMessageId |-> "C", text |-> "c"] }

HeaderIds == { m.headerMessageId : m \in Pool }

\* The text handed to the provider for a message (subject, sender, body).
extractMessageText(msg) == msg.text

\* The vector the provider computes for a text.
EmbeddingOf(text) ==
  CASE text = "a" -> <<1, 0>>
    [] text = "b" -> <<3, 4>>
    [] text = "c" -> <<0, 1>>

EmptyMap == [h \in {} |-> undefined]

\* The entry of the largest position among those of entries with this messageId.
LastFor(entries, h) ==
  LET ps == { p \in DOMAIN entries : entries[p].messageId = h }
  IN  entries[CHOOSE p \in ps : \A q \in ps : q <= p].embedding

\* A store whose write clears it first: only the entries written remain.
setAllCleared(map, entries) ==
  LET ids == { entries[p].messageId : p \in DOMAIN entries }
  IN  [h \in ids |-> LastFor(entries, h)]

\* A store whose write adds new ids only: the record of an existing id is kept.
setAllAddOnly(map, entries) ==
  LET ids == { entries[p].messageId : p \in DOMAIN entries }
  IN  [h \in DOMAIN map \cup ids |->
        IF h \in DOMAIN map THEN map[h] ELSE LastFor(entries, h)]

\* map.set(entry.messageId, entry.embedding) / store.put(entry), for each entry in order.
setAll(map, entries) ==
  LET ids == { entries[p].messageId : p \in DOMAIN entries }
  IN  [h \in DOMAIN map \cup ids |-> IF h \in ids THEN LastFor(entries, h) ELSE map[h]]

\* A scan that keeps every record of the store, needed or not.
getEmbeddingsUnfiltered(st, messageIds) == st

\* getEmbeddings: the cursor scan keeps the records whose messageId is needed.
getEmbeddings(st, messageIds) ==
  LET needed == { messageIds[p] : p \in DOMAIN messageIds }
  IN  [h \in DOMAIN st \cap needed |-> st[h]]

null == <<"null">>

\* getEmbedding: request.result?.embedding ?? null
getEmbedding(st, messageId) ==
  IF messageId \in DOMAIN st /\ st[messageId] # undefined THEN st[messageId] ELSE null

messageIdsOf(msgs) == [p \in DOMAIN msgs |-> msgs[p].headerMessageId]

\* A filter that drops nothing: every message is taken to need an embedding.
needEmbeddingUnfiltered(msgs, cached) == msgs

\* messages.filter((m) => !cachedEmbeddings.has(m.headerMessageId))
needEmbeddingOf(msgs, cached) ==
  SelectSeq(msgs, LAMBDA m : m.headerMessageId \notin DOMAIN cached)

\* A slice that runs one text into the next batch.
batchAtOverlapping(txts, i) ==
  SubSeq(txts, i + 1, IF i + EMBEDDING_BATCH_SIZE + 1 < Len(txts)
                      THEN i + EMBEDDING_BATCH_SIZE + 1 ELSE Len(txts))

\* texts.slice(i, i + EMBEDDING_BATCH_SIZE), i 0-based
batchAt(txts, i) ==
  SubSeq(txts, i + 1, IF i + EMBEDDING_BATCH_SIZE < Len(txts)
                      THEN i + EMBEDDING_BATCH_SIZE ELSE Len(txts))

Reverse(seq) == [p \in DOMAIN seq |-> seq[Len(seq) + 1 - p]]

\* What the provider may answer to a batch with a 2xx status: one result per
\* text, listed in order or in reverse, or a list that lacks the last result.
Responses(batch) ==
  LET full == [p \in DOMAIN batch |->
                 [index |-> p - 1, embedding |-> EmbeddingOf(batch[p])]]
  IN  { full, Reverse(full), SubSeq(full, 1, Len(full) - 1) }

\* data.data.sort((a, b) => a.index - b.index)
RECURSIVE insertByIndex(_, _)
insertByIndex(sorted, item) ==
  IF sorted = << >> THEN <<item>>
  ELSE IF sorted[Len(sorted)].index <= item.index THEN Append(sorted, item)
  ELSE Append(insertByIndex(SubSeq(sorted, 1, Len(sorted) - 1), item), sorted[Len(sorted)])

RECURSIVE sortByIndex(_)
sortByIndex(data) ==
  IF data = << >> THEN << >>
  ELSE insertByIndex(sortByIndex(SubSeq(data, 1, Len(data) - 1)), data[Len(data)])

\* for (const item of sorted) allEmbeddings.push(item.embedding)
pushAll(all, data) ==
  LET sorted == sortByIndex(data)
  IN  all \o [p \in DOMAIN sorted |-> sorted[p].embedding]

\* needEmbedding.map((msg, i) => ({messageId, embedding: newEmbeddings[i]}))
entriesOf(need, newEmbeddings) ==
  [p \in DOMAIN need |->
    [messageId |-> need[p].headerMessageId,
     embedding |-> IF p <= Len(newEmbeddings) THEN newEmbeddings[p] ELSE undefined]]

\* messageIds.map((id) => cachedEmbeddings.get(id))
embeddingArrayOf(messageIds, cached) ==
  [p \in DOMAIN messageIds |->
    IF messageIds[p] \in DOMAIN cached THEN cached[messageIds[p]] ELSE undefined]

\* messageIds[originalIndex] as a property name; out of range it is "undefined".
keyAt(messageIds, originalIndex) ==
  IF originalIndex + 1 \in DOMAIN messageIds THEN messageIds[originalIndex + 1]
  ELSE "undefined"

\* for (position ...) ranks[messageIds[order[position]]] = position + 1
ranksOf(ord, messageIds) ==
  LET keys == { keyAt(messageIds, ord[p]) : p \in DOMAIN ord }
  IN  [k \in keys |->
        CHOOSE p \in DOMAIN ord :
          /\ keyAt(messageIds, ord[p]) = k
          /\ \A q \in DOMAIN ord : keyAt(messageIds, ord[q]) = k => q <= p]

VARIABLES
  folder,            \* the messages of the displayed folder
  store,             \* the object store "embeddings": messageId -> embedding
  columnRanks,       \* self.ranks of the column
  pc,                \* where each handleSeriate call stands
  messages,          \* handleSeriate's locals, per call
  cachedEmbeddings,
  needEmbedding,
  texts,
  batchStart,        \* fetchEmbeddings' i
  allEmbeddings,
  embeddingArray,    \* the argument of seriate, << >> before the call
  writes,            \* the storeEmbeddings call of each run: its state and entries
  status,            \* the types of the status messages sent, per call
  requests,          \* the batches sent to the provider, per call
  storeAtLookup,     \* the ids in the store when getEmbeddings read it
  phase,             \* what ended the call: "" while none, else the failed phase
  called             \* the operations each call has invoked so far

rvars == <<folder, store, columnRanks, pc, messages, cachedEmbeddings, needEmbedding,
           texts, batchStart, allEmbeddings, embeddingArray, writes, status,
           requests, storeAtLookup, phase, called>>

\* The calls made on the embedding cache by a caller of db.js alone: the last
\* two, each with its name, argument, outcome and result.
VARIABLE dbCalls

\* The calls made on the column's API by a caller of implementation.js alone:
\* the last two, each with its name and argument.
VARIABLE columnCalls

\* Whether the popup has asked to cancel the run in flight (a message other
\* than "seriate" sent to the background script).
VARIABLE cancelRequested

vars == <<svars, rvars, dbCalls, columnCalls, cancelRequested>>

NoCancel == cancelRequested = FALSE

DbIdle == dbCalls = << >>

ColumnIdle == columnCalls = << >>

NoWrite == [state |-> "none", entries |-> << >>, during |-> FALSE]

RunsIdle ==
  /\ columnRanks = EmptyMap
  /\ pc = [r \in Runs |-> "idle"]
  /\ messages = [r \in Runs |-> << >>]
  /\ cachedEmbeddings = [r \in Runs |-> EmptyMap]
  /\ needEmbedding = [r \in Runs |-> << >>]
  /\ texts = [r \in Runs |-> << >>]
  /\ batchStart = [r \in Runs |-> 0]
  /\ allEmbeddings = [r \in Runs |-> << >>]
  /\ embeddingArray = [r \in Runs |-> << >>]
  /\ writes = [r \in Runs |-> NoWrite]
  /\ status = [r \in Runs |-> << >>]
  /\ requests = [r \in Runs |-> << >>]
  /\ storeAtLookup = [r \in Runs |-> {}]
  /\ phase = [r \in Runs |-> ""]
  /\ called = [r \in Runs |-> {}]

SeriateIdle ==
  /\ embeddings = << >>
  /\ order = << >>
  /\ visited = {}
  /\ current = 0
  /\ spc = "call"

\* The store as earlier sessions left it: any subset of the ids, each with
\* the embedding of its message.
Init ==
  /\ folder \in SeqsUpTo(Pool, MaxItems)
  /\ \E S \in SUBSET Pool :
       store = [h \in { m.headerMessageId : m \in S } |->
                 EmbeddingOf((CHOOSE m \in S : m.headerMessageId = h).text)]
  /\ RunsIdle
  /\ SeriateIdle
  /\ DbIdle
  /\ ColumnIdle
  /\ NoCancel

\* sendStatus(type, ...) for each type of types, in order.
sendStatus(r, types) == status' = [status EXCEPT ![r] = @ \o types]

\* A catch that swallows the error: the call ends without a status message.
ThrowSilently(r, ph) ==
  /\ status' = status
  /\ pc' = [pc EXCEPT ![r] = "end"]
  /\ phase' = [phase EXCEPT ![r] = ph]

\* catch (err) { sendStatus("error", ...) }
Throw(r, ph) ==
  /\ sendStatus(r, <<"error">>)
  /\ pc' = [pc EXCEPT ![r] = "end"]
  /\ phase' = [phase EXCEPT ![r] = ph]

\* The call r invokes the operations ops (it awaits them, or lets them run).
invoke(r, ops) == called' = [called EXCEPT ![r] = @ \cup ops]

\* A setRanks without the clear: the entries of ranks are set over the old map.
setRanksMerged(old, ranks) ==
  [k \in DOMAIN old \cup DOMAIN ranks |-> IF k \in DOMAIN ranks THEN ranks[k] ELSE old[k]]

\* async setRanks(ranks): clear the map, then set every entry of ranks.
setRanks(old, ranks) == [k \in DOMAIN ranks |-> ranks[k]]

\* The ranks object handleSeriate builds from the ordering (lines 178-187).
ranksArg(r) ==
  ranksOf(seriate(embeddingArray[r]).order, messageIdsOf(messages[r]))

\* Lines 174-190, up to the await of setRanks: the merge into message order,
\* seriate, the ranks.  cached is the map after the new entries were set;
\* pre are the status messages sent, and ops the operations invoked, earlier in
\* the same step.
Seriation(r, cached, pre, ops) ==
  LET arr == embeddingArrayOf(messageIdsOf(messages[r]), cached)
      res == seriate(arr)
  IN  /\ cachedEmbeddings' = [cachedEmbeddings EXCEPT ![r] = cached]
      /\ embeddingArray' = [embeddingArray EXCEPT ![r] = arr]
      /\ IF res.threw
         THEN /\ sendStatus(r, pre \o <<"progress", "error">>)
              /\ invoke(r, ops)
              /\ pc' = [pc EXCEPT ![r] = "end"]
              /\ phase' = [phase EXCEPT ![r] = "seriate"]
         ELSE /\ sendStatus(r, pre \o <<"progress", "progress">>)
              /\ invoke(r, ops \cup {"setRanks"})
              /\ pc' = [pc EXCEPT ![r] = "setRanks"]
              /\ UNCHANGED phase

\* The popup's "seriate" message: the listener calls handleSeriate, which runs
\* to its first await.  Runs are numbered in the order they start.
Seriate(r) ==
  /\ pc[r] = "idle"
  /\ \A q \in Runs : q < r => pc[q] # "idle"
  /\ pc' = [pc EXCEPT ![r] = "getKey"]
  /\ UNCHANGED <<svars, dbCalls, columnCalls, cancelRequested, called,
                 folder, store, columnRanks, messages, cachedEmbeddings,
                 needEmbedding, texts, batchStart, allEmbeddings, embeddingArray,
                 writes, status, requests, storeAtLookup, phase>>

\* A key check placed after the cache lookup was started.
GetKeyAfterLookup(r) ==
  /\ pc[r] = "getKey"
  /\ \E apiKey \in BOOLEAN :
       IF ~apiKey THEN Throw(r, "config") /\ invoke(r, {"getEmbeddings"})
       ELSE /\ sendStatus(r, <<"progress">>)
            /\ pc' = [pc EXCEPT ![r] = "findTab"]
            /\ UNCHANGED <<phase, called>>
  /\ UNCHANGED <<svars, dbCalls, columnCalls, cancelRequested,
                 folder, store, columnRanks, messages,
                 cachedEmbeddings, needEmbedding, texts, batchStart, allEmbeddings,
                 embeddingArray, writes, requests, storeAtLookup>>

\* Lines 97-104: the API key read from storage.local; missing, it throws.
GetKey(r) ==
  /\ pc[r] = "getKey"
  /\ \E apiKey \in BOOLEAN :
       IF ~apiKey THEN Throw(r, "config")
       ELSE /\ sendStatus(r, <<"progress">>)
            /\ pc' = [pc EXCEPT ![r] = "findTab"]
            /\ UNCHANGED phase
  /\ UNCHANGED <<svars, dbCalls, columnCalls, cancelRequested, called,
                 folder, store, columnRanks, messages, cachedEmbeddings,
                 needEmbedding, texts, batchStart, allEmbeddings, embeddingArray,
                 writes, requests, storeAtLookup>>

\* Lines 104-119: the mail tab and its displayed folder.
FindTab(r) ==
  /\ pc[r] = "findTab"
  /\ \E found \in {"ok", "noTabs", "noFolder"} :
       IF found # "ok" THEN Throw(r, "tab")
       ELSE /\ sendStatus(r, <<"progress">>)
            /\ pc' = [pc EXCEPT ![r] = "list"]
            /\ UNCHANGED phase
  /\ UNCHANGED <<svars, dbCalls, columnCalls, cancelRequested, called,
                 folder, store, columnRanks, messages, cachedEmbeddings,
                 needEmbedding, texts, batchStart, allEmbeddings, embeddingArray,
                 writes, requests, storeAtLookup>>

\* A listing without the check for an empty folder: the run goes on.
ListMessagesUnchecked(r) ==
  /\ pc[r] = "list"
  /\ messages' = [messages EXCEPT ![r] = folder]
  /\ sendStatus(r, <<"progress">>)
  /\ invoke(r, {"getEmbeddings"})
  /\ pc' = [pc EXCEPT ![r] = "getEmbeddings"]
  /\ UNCHANGED <<svars, dbCalls, columnCalls, cancelRequested,
                 folder, store, columnRanks, cachedEmbeddings,
                 needEmbedding, texts, batchStart, allEmbeddings, embeddingArray,
                 writes, requests, storeAtLookup, phase>>

\* Lines 118-134: the messages of the folder, all pages of the listing taken
\* together (the folder does not change during a behaviour); none, it throws.
ListMessages(r) ==
  /\ pc[r] = "list"
  /\ messages' = [messages EXCEPT ![r] = folder]
  /\ IF Len(folder) = 0 THEN Throw(r, "empty") /\ UNCHANGED called
     ELSE /\ sendStatus(r, <<"progress">>)
          /\ invoke(r, {"getEmbeddings"})
          /\ pc' = [pc EXCEPT ![r] = "getEmbeddings"]
          /\ UNCHANGED phase
  /\ UNCHANGED <<svars, dbCalls, columnCalls, cancelRequested,
                 folder, store, columnRanks, cachedEmbeddings,
                 needEmbedding, texts, batchStart, allEmbeddings, embeddingArray,
                 writes, requests, storeAtLookup>>

\* Line 134 rejects: openDB or the cursor request failed.
GetEmbeddingsReject(r) ==
  /\ pc[r] = "getEmbeddings"
  /\ Throw(r, "cacheRead")
  /\ UNCHANGED <<svars, dbCalls, columnCalls, cancelRequested, called,
                 folder, store, columnRanks, messages, cachedEmbeddings,
                 needEmbedding, texts, batchStart, allEmbeddings, embeddingArray,
                 writes, requests, storeAtLookup>>

\* Lines 134-144 (and 174-190 when nothing is missing): the cache lookup
\* resolves; the messages are split into cached and missing.
GetEmbeddingsResolve(r) ==
  /\ pc[r] = "getEmbeddings"
  /\ LET cached == getEmbeddings(store, messageIdsOf(messages[r]))
         need   == needEmbeddingOf(messages[r], cached)
     IN  /\ needEmbedding' = [needEmbedding EXCEPT ![r] = need]
         /\ storeAtLookup' = [storeAtLookup EXCEPT ![r] = DOMAIN store]
         /\ IF Len(need) > 0
            THEN /\ cachedEmbeddings' = [cachedEmbeddings EXCEPT ![r] = cached]
                 /\ sendStatus(r, <<"progress", "progress">>)
                 /\ pc' = [pc EXCEPT ![r] = "getFull"]
                 /\ UNCHANGED <<embeddingArray, phase, called>>
            ELSE Seriation(r, cached, <<"progress">>, {})
  /\ UNCHANGED <<svars, dbCalls, columnCalls, cancelRequested,
                 folder, store, columnRanks, messages, texts, batchStart,
                 allEmbeddings, writes, requests>>

\* Line 148 rejects: a message body could not be read.
GetFullReject(r) ==
  /\ pc[r] = "getFull"
  /\ Throw(r, "getFull")
  /\ UNCHANGED <<svars, dbCalls, columnCalls, cancelRequested, called,
                 folder, store, columnRanks, messages, cachedEmbeddings,
                 needEmbedding, texts, batchStart, allEmbeddings, embeddingArray,
                 writes, requests, storeAtLookup>>

\* Lines 146-156 and 15-31: one message body is read and its text kept (the
\* progress message of every tenth body needs more than MaxItems messages);
\* after the last one fetchEmbeddings is called and sends its first request.
GetFull(r) ==
  /\ pc[r] = "getFull"
  /\ LET msg == needEmbedding[r][Len(texts[r]) + 1]
         txs == Append(texts[r], extractMessageText(msg))
     IN  /\ texts' = [texts EXCEPT ![r] = txs]
         /\ IF Len(txs) < Len(needEmbedding[r])
            THEN UNCHANGED <<pc, status, requests, called>>
            ELSE /\ sendStatus(r, <<"progress">>)
                 /\ invoke(r, {"fetchEmbeddings"})
                 /\ requests' = [requests EXCEPT ![r] = Append(@, batchAt(txs, 0))]
                 /\ pc' = [pc EXCEPT ![r] = "fetch"]
  /\ UNCHANGED <<svars, dbCalls, columnCalls, cancelRequested,
                 folder, store, columnRanks, messages, cachedEmbeddings,
                 needEmbedding, batchStart, allEmbeddings, embeddingArray,
                 writes, storeAtLookup, phase>>

\* A failed batch that is noted and sent again instead of being thrown.
FetchFailRetry(r) ==
  /\ pc[r] = "fetch"
  /\ phase' = [phase EXCEPT ![r] = "provider"]
  /\ requests' = [requests EXCEPT ![r] = Append(@, batchAt(texts[r], batchStart[r]))]
  /\ UNCHANGED <<svars, dbCalls, columnCalls, cancelRequested, called,
                 folder, store, columnRanks, pc, messages,
                 cachedEmbeddings, needEmbedding, texts, batchStart, allEmbeddings,
                 embeddingArray, writes, status, storeAtLookup>>

\* Lines 33-36: the provider answers a batch with a non-2xx status.
FetchFail(r) ==
  /\ pc[r] = "fetch"
  /\ Throw(r, "provider")
  /\ UNCHANGED <<svars, dbCalls, columnCalls, cancelRequested, called,
                 folder, store, columnRanks, messages, cachedEmbeddings,
                 needEmbedding, texts, batchStart, allEmbeddings, embeddingArray,
                 writes, requests, storeAtLookup>>

\* Lines 38-44 and 19-31: the provider answers a batch that is not the last;
\* its results are sorted and kept, and the next batch is requested.
FetchNext(r) ==
  /\ pc[r] = "fetch"
  /\ batchStart[r] + EMBEDDING_BATCH_SIZE < Len(texts[r])
  /\ \E data \in Responses(batchAt(texts[r], batchStart[r])) :
       allEmbeddings' = [allEmbeddings EXCEPT ![r] = pushAll(@, data)]
  /\ batchStart' = [batchStart EXCEPT ![r] = @ + EMBEDDING_BATCH_SIZE]
  /\ requests' = [requests EXCEPT ![r] =
                    Append(@, batchAt(texts[r], batchStart[r] + EMBEDDING_BATCH_SIZE))]
  /\ UNCHANGED <<svars, dbCalls, columnCalls, cancelRequested, called,
                 folder, store, columnRanks, pc, messages, cachedEmbeddings,
                 needEmbedding, texts, embeddingArray, writes, status,
                 storeAtLookup, phase>>

\* Lines 38-46 and 156-190: the provider answers the last batch; fetchEmbeddings
\* returns, the entries are handed to storeEmbeddings without awaiting it and
\* set in the map, and the run goes on to seriate.
FetchLast(r) ==
  /\ pc[r] = "fetch"
  /\ batchStart[r] + EMBEDDING_BATCH_SIZE >= Len(texts[r])
  /\ \E data \in Responses(batchAt(texts[r], batchStart[r])) :
       LET newEmbeddings == pushAll(allEmbeddings[r], data)
           entries       == entriesOf(needEmbedding[r], newEmbeddings)
       IN  /\ allEmbeddings' = [allEmbeddings EXCEPT ![r] = newEmbeddings]
           /\ writes' = [writes EXCEPT ![r] =
                           [state |-> "pending", entries |-> entries, during |-> FALSE]]
           /\ Seriation(r, setAll(cachedEmbeddings[r], entries), << >>,
                        {"storeEmbeddings"})
  /\ batchStart' = [batchStart EXCEPT ![r] = @ + EMBEDDING_BATCH_SIZE]
  /\ UNCHANGED <<svars, dbCalls, columnCalls, cancelRequested,
                 folder, store, columnRanks, messages, needEmbedding, texts,
                 requests, storeAtLookup>>

\* storeEmbeddings, lines 76-84: the readwrite transaction with every put completes.
StoreCommit(r) ==
  /\ writes[r].state = "pending"
  /\ store' = setAll(store, writes[r].entries)
  /\ writes' = [writes EXCEPT ![r].state = "committed"]
  /\ UNCHANGED <<svars, dbCalls, columnCalls, cancelRequested, called,
                 folder, columnRanks, pc, messages, cachedEmbeddings,
                 needEmbedding, texts, batchStart, allEmbeddings, embeddingArray,
                 status, requests, storeAtLookup, phase>>

\* storeEmbeddings rejects (openDB or the transaction failed: nothing is written);
\* lines 164-166 log the error and nothing else.
StoreFail(r) ==
  /\ writes[r].state = "pending"
  /\ writes' = [writes EXCEPT ![r].state = "failed", ![r].during = (pc[r] # "end")]
  /\ UNCHANGED <<svars, dbCalls, columnCalls, cancelRequested, called,
                 folder, store, columnRanks, pc, messages, cachedEmbeddings,
                 needEmbedding, texts, batchStart, allEmbeddings, embeddingArray,
                 status, requests, storeAtLookup, phase>>

\* implementation.js lines 71-77: setRanks runs in the column's process.
SetRanks(r) ==
  /\ pc[r] = "setRanks"
  /\ columnRanks' = setRanks(columnRanks, ranksArg(r))
  /\ pc' = [pc EXCEPT ![r] = "ranksSet"]
  /\ UNCHANGED <<svars, dbCalls, columnCalls, cancelRequested, called,
                 folder, store, messages, cachedEmbeddings,
                 needEmbedding, texts, batchStart, allEmbeddings, embeddingArray,
                 writes, status, requests, storeAtLookup, phase>>

\* A run that does not await setRanks: "done" is sent while setRanks is pending.
DoneUnawaited(r) ==
  /\ pc[r] = "setRanks"
  /\ sendStatus(r, <<"done">>)
  /\ pc' = [pc EXCEPT ![r] = "end"]
  /\ UNCHANGED <<svars, dbCalls, columnCalls, cancelRequested, called,
                 folder, store, columnRanks, messages, cachedEmbeddings,
                 needEmbedding, texts, batchStart, allEmbeddings, embeddingArray,
                 writes, requests, storeAtLookup, phase>>

\* Lines 190-194: the await of setRanks resolves; "done" is sent.
Done(r) ==
  /\ pc[r] = "ranksSet"
  /\ sendStatus(r, <<"done">>)
  /\ pc' = [pc EXCEPT ![r] = "end"]
  /\ UNCHANGED <<svars, dbCalls, columnCalls, cancelRequested, called,
                 folder, store, columnRanks, messages, cachedEmbeddings,
                 needEmbedding, texts, batchStart, allEmbeddings, embeddingArray,
                 writes, requests, storeAtLookup, phase>>

handleSeriate(r) ==
  \/ GetKey(r)
  \/ FindTab(r)
  \/ ListMessages(r)
  \/ GetEmbeddingsReject(r)
  \/ GetEmbeddingsResolve(r)
  \/ GetFullReject(r)
  \/ GetFull(r)
  \/ FetchFail(r)
  \/ FetchNext(r)
  \/ FetchLast(r)
  \/ Done(r)

Next ==
  \E r \in Runs :
    \/ Seriate(r)
    \/ handleSeriate(r)
    \/ StoreCommit(r)
    \/ StoreFail(r)
    \/ SetRanks(r)

Spec == Init /\ [][Next]_vars

(***************************************************************************)
(* One handleSeriate call during which the popup may ask to cancel.        *)
(***************************************************************************)

\* Lines 76-81: the listener acts on "seriate" only; any other message, a
\* request to cancel among them, is dropped and changes nothing.
Cancel ==
  /\ pc[1] \notin {"idle", "end"}
  /\ ~cancelRequested
  /\ cancelRequested' = TRUE
  /\ UNCHANGED <<svars, rvars, dbCalls, columnCalls>>

NextCancel ==
  \/ Seriate(1)
  \/ handleSeriate(1)
  \/ StoreCommit(1)
  \/ StoreFail(1)
  \/ SetRanks(1)
  \/ Cancel

SpecCancel == Init /\ [][NextCancel]_vars

(***************************************************************************)
(* seriate alone, statement by statement; the background script stays idle.*)
(***************************************************************************)
InitSeriate ==
  /\ embeddings \in SeqsUpTo(Vectors, MaxN)
  /\ order = << >>
  /\ visited = {}
  /\ current = 0
  /\ spc = "call"
  /\ folder = << >>
  /\ store = EmptyMap
  /\ RunsIdle
  /\ DbIdle
  /\ ColumnIdle
  /\ NoCancel

\* Lines 57-68: the degenerate returns, the matrix, the anchor.
SeriateEnter ==
  /\ spc = "call"
  /\ IF Len(embeddings) <= 1
     THEN /\ order' = seriate(embeddings).order
          /\ spc' = "returned"
          /\ UNCHANGED <<visited, current>>
     ELSE /\ order' = seriateStart.order
          /\ visited' = seriateStart.visited
          /\ current' = seriateStart.current
          /\ spc' = "loop"
  /\ UNCHANGED <<embeddings, rvars, dbCalls, columnCalls, cancelRequested>>

\* Lines 70-84: one iteration of the while loop.
SeriateIterate ==
  /\ spc = "loop"
  /\ Len(order) < Len(embeddings)
  /\ LET L == seriateIter(buildDistanceMatrix(embeddings), Len(embeddings),
                          [order |-> order, visited |-> visited,
                           current |-> current, threw |-> FALSE])
     IN  /\ order' = L.order
         /\ visited' = L.visited
         /\ current' = L.current
         /\ spc' = IF L.threw THEN "threw" ELSE "loop"
  /\ UNCHANGED <<embeddings, rvars, dbCalls, columnCalls, cancelRequested>>

\* Line 86: return order.
SeriateReturn ==
  /\ spc = "loop"
  /\ Len(order) >= Len(embeddings)
  /\ spc' = "returned"
  /\ UNCHANGED <<embeddings, order, visited, current, rvars, dbCalls, columnCalls,
                 cancelRequested>>

NextSeriate == SeriateEnter \/ SeriateIterate \/ SeriateReturn

SpecSeriate == InitSeriate /\ [][NextSeriate]_vars

(***************************************************************************)
(* db.js alone: a caller stores and reads entries of the object store; the *)
(* background script and seriate stay idle.  An IndexedDB transaction      *)
(* either completes with all its requests or rejects and writes nothing.   *)
(***************************************************************************)
MaxEntries == 2

\* The vectors a caller may store under an id.
DbEmbeddings == { <<1, 0>>, <<0, 1>> }

\* The ids a caller may use.
DbIds == { "A", "B" }

DbEntries == [messageId : DbIds, embedding : DbEmbeddings]

InitStore ==
  /\ store \in UNION { [S -> DbEmbeddings] : S \in SUBSET DbIds }
  /\ dbCalls = << >>
  /\ ColumnIdle
  /\ NoCancel
  /\ folder = << >>
  /\ RunsIdle
  /\ SeriateIdle

\* The call is remembered together with the one before it; of a call that
\* rejected, only its name is.
Log(call) ==
  dbCalls' = IF dbCalls = << >> THEN <<call>> ELSE <<dbCalls[Len(dbCalls)], call>>

\* db.js lines 76-87: storeEmbeddings(entries) resolves when the transaction
\* completes and rejects, nothing written, when it fails.
DbStoreEmbeddings ==
  \E entries \in SeqsUpTo(DbEntries, MaxEntries), ok \in BOOLEAN :
    /\ store' = IF ok THEN setAll(store, entries) ELSE store
    /\ Log([op |-> "storeEmbeddings", ok |-> ok, result |-> undefined,
            arg |-> IF ok THEN entries ELSE undefined])
    /\ UNCHANGED <<svars, columnCalls, cancelRequested, folder, columnRanks, pc, messages,
                   cachedEmbeddings,
                   needEmbedding, texts, batchStart, allEmbeddings, embeddingArray,
                   writes, status, requests, storeAtLookup, phase, called>>

\* db.js lines 47-70: getEmbeddings(messageIds) resolves with the map of the
\* records found, or rejects when the cursor request fails.
DbGetEmbeddings ==
  \E messageIds \in SeqsUpTo(DbIds, MaxEntries), ok \in BOOLEAN :
    /\ Log([op |-> "getEmbeddings", ok |-> ok,
            arg |-> IF ok THEN messageIds ELSE undefined,
            result |-> IF ok THEN getEmbeddings(store, messageIds) ELSE undefined])
    /\ UNCHANGED <<svars, rvars, columnCalls, cancelRequested>>

\* db.js lines 32-41: getEmbedding(messageId).
DbGetEmbedding ==
  \E messageId \in DbIds, ok \in BOOLEAN :
    /\ Log([op |-> "getEmbedding", ok |-> ok,
            arg |-> IF ok THEN messageId ELSE undefined,
            result |-> IF ok THEN getEmbedding(store, messageId) ELSE undefined])
    /\ UNCHANGED <<svars, rvars, columnCalls, cancelRequested>>

NextStore == DbStoreEmbeddings \/ DbGetEmbeddings \/ DbGetEmbedding

SpecStore == InitStore /\ [][NextStore]_vars

(***************************************************************************)
(* fetchEmbeddings alone: a caller (call 1) hands it an array of texts and *)
(* awaits the result; handleSeriate, the store and seriate stay idle.      *)
(***************************************************************************)
MaxTexts == 5

InitFetch ==
  /\ folder = << >>
  /\ store = EmptyMap
  /\ RunsIdle
  /\ SeriateIdle
  /\ DbIdle
  /\ ColumnIdle
  /\ NoCancel

\* Lines 15-31: the call; with texts the loop sends its first request, without
\* any it returns the empty array at once.
FetchEmbeddingsCall ==
  /\ pc[1] = "idle"
  /\ \E txs \in SeqsUpTo({"a", "b"}, MaxTexts) :
       /\ texts' = [texts EXCEPT ![1] = txs]
       /\ IF Len(txs) = 0
          THEN /\ pc' = [pc EXCEPT ![1] = "fetched"]
               /\ UNCHANGED requests
          ELSE /\ pc' = [pc EXCEPT ![1] = "fetch"]
               /\ requests' = [requests EXCEPT ![1] = Append(@, batchAt(txs, 0))]
  /\ UNCHANGED <<svars, dbCalls, columnCalls, cancelRequested, called,
                 folder, store, columnRanks, messages,
                 cachedEmbeddings, needEmbedding, batchStart, allEmbeddings,
                 embeddingArray, writes, status, storeAtLookup, phase>>

\* Lines 38-46 and 19-31: a 2xx answer is sorted and kept; the loop sends the
\* next batch, or returns after the last one.
FetchEmbeddingsRespond ==
  /\ pc[1] = "fetch"
  /\ \E data \in Responses(batchAt(texts[1], batchStart[1])) :
       allEmbeddings' = [allEmbeddings EXCEPT ![1] = pushAll(@, data)]
  /\ batchStart' = [batchStart EXCEPT ![1] = @ + EMBEDDING_BATCH_SIZE]
  /\ IF batchStart[1] + EMBEDDING_BATCH_SIZE < Len(texts[1])
     THEN /\ requests' = [requests EXCEPT ![1] =
                Append(@, batchAt(texts[1], batchStart[1] + EMBEDDING_BATCH_SIZE))]
          /\ UNCHANGED pc
     ELSE /\ pc' = [pc EXCEPT ![1] = "fetched"]
          /\ UNCHANGED requests
  /\ UNCHANGED <<svars, dbCalls, columnCalls, cancelRequested, called,
                 folder, store, columnRanks, messages,
                 cachedEmbeddings, needEmbedding, texts, embeddingArray, writes,
                 status, storeAtLookup, phase>>

\* Lines 33-36: a non-2xx answer; fetchEmbeddings throws.
FetchEmbeddingsThrow ==
  /\ pc[1] = "fetch"
  /\ pc' = [pc EXCEPT ![1] = "fetchThrew"]
  /\ UNCHANGED <<svars, dbCalls, columnCalls, cancelRequested, called,
                 folder, store, columnRanks, messages,
                 cachedEmbeddings, needEmbedding, texts, batchStart, allEmbeddings,
                 embeddingArray, writes, status, requests, storeAtLookup, phase>>

NextFetch == FetchEmbeddingsCall \/ FetchEmbeddingsRespond \/ FetchEmbeddingsThrow

SpecFetch == InitFetch /\ [][NextFetch]_vars

(***************************************************************************)
(* The column alone (api/seriateColumn/implementation.js): a caller sets   *)
(* and clears the ranks, the thread pane asks for sort keys.               *)
(***************************************************************************)

\* Number.MAX_SAFE_INTEGER (2^53 - 1), scaled to the largest integer of the checker.
MAX_SAFE_INTEGER == 2147483647

\* sortCallback: the rank of the message, MAX_SAFE_INTEGER without one.
sortCallback(ranksMap, messageId) ==
  IF messageId \in DOMAIN ranksMap THEN ranksMap[messageId] ELSE MAX_SAFE_INTEGER

\* The ranks objects a caller may pass: ranks 1..MaxItems for some of the ids.
RankMaps == UNION { [S -> 1..MaxItems] : S \in SUBSET HeaderIds }

\* Line 11: this.ranks = new Map().
InitColumn ==
  /\ folder = << >>
  /\ store = EmptyMap
  /\ RunsIdle
  /\ SeriateIdle
  /\ DbIdle
  /\ ColumnIdle
  /\ NoCancel

LogColumn(call) ==
  columnCalls' = IF columnCalls = << >> THEN <<call>>
                 ELSE <<columnCalls[Len(columnCalls)], call>>

\* Lines 71-77: setRanks(ranks).
ColumnSetRanks ==
  \E ranks \in RankMaps :
    /\ columnRanks' = setRanks(columnRanks, ranks)
    /\ LogColumn([op |-> "setRanks", arg |-> ranks])
    /\ UNCHANGED <<svars, dbCalls, cancelRequested, folder, store, pc, messages,
                   cachedEmbeddings, needEmbedding, texts, batchStart, allEmbeddings, embeddingArray,
                   writes, status, requests, storeAtLookup, phase, called>>

\* Lines 79-82: clearRanks().
ColumnClearRanks ==
  /\ columnRanks' = EmptyMap
  /\ LogColumn([op |-> "clearRanks", arg |-> EmptyMap])
  /\ UNCHANGED <<svars, dbCalls, cancelRequested, folder, store, pc, messages,
                 cachedEmbeddings, needEmbedding, texts, batchStart, allEmbeddings, embeddingArray,
                 writes, status, requests, storeAtLookup, phase, called>>

NextColumn == ColumnSetRanks \/ ColumnClearRanks

SpecColumn == InitColumn /\ [][NextColumn]_vars

(***************************************************************************)
(* Properties of seriate, under SpecSeriate.                               *)
(***************************************************************************)
Elems(seq) == { seq[p] : p \in DOMAIN seq }

IsPermutation(seq, n) == Len(seq) = n /\ Elems(seq) = 0..(n - 1)

\* C1: whenever seriate returns, for an input of n vectors, the result has
\* exactly n indices, each of 0..n-1 exactly once; -1 is never in it.
C1_ReturnsPermutation ==
  spc = "returned" => IsPermutation(order, Len(embeddings)) /\ -1 \notin Elems(order)

\* Position p (p >= 2) of ord holds an unvisited index nearest to its predecessor,
\* the smallest such index on a tie.
NearestAt(dist, ord, p) ==
  LET prev   == ord[p - 1]
      chosen == ord[p]
      before == { ord[q] : q \in 1..(p - 1) }
      open   == DOMAIN dist \ before
  IN  /\ chosen \in open
      /\ \A j \in open : ~Lt(dist[prev][j], dist[prev][chosen])
      /\ \A j \in open : j < chosen => Lt(dist[prev][chosen], dist[prev][j])

\* C2: for n >= 2, every index appended after the anchor is an unvisited index at
\* minimal distance from the previously appended one, the smallest index on a tie.
C2_AppendsNearestUnvisited ==
  Len(embeddings) >= 2 =>
    \A p \in 2..Len(order) : NearestAt(buildDistanceMatrix(embeddings), order, p)

\* C16: seriate returns the empty ordering for no vector and <<0>> for one,
\* without throwing in either case, and every ordering it returns for one or
\* more vectors starts with the anchor index 0.
C16_DegenerateAndAnchor ==
  /\ Len(embeddings) <= 1 => spc \in {"call", "returned"}
  /\ spc = "returned" =>
       /\ Len(embeddings) = 0 => order = << >>
       /\ Len(embeddings) = 1 => order = <<0>>
       /\ Len(embeddings) >= 1 => Len(order) >= 1 /\ order[1] = 0

\* seriate has returned for a single vector.
C16_Witness == spc = "returned" /\ Len(embeddings) = 1 /\ order = <<0>>

\* C22: for the n vectors seriate was called with, buildDistanceMatrix returns
\* n rows of n cells, cell (i, j) equals cell (j, i) as a number, and every
\* cell (i, i) equals 0.
C22_MatrixSymmetricZeroDiagonal ==
  LET m == buildDistanceMatrix(embeddings)
      n == Len(embeddings)
  IN  spc # "call" =>
        /\ DOMAIN m = 0..(n - 1)
        /\ \A i \in 0..(n - 1) :
             /\ DOMAIN m[i] = 0..(n - 1)
             /\ Eq(m[i][i], Num(0))
             /\ \A j \in 0..(n - 1) : Eq(m[i][j], m[j][i])

ZeroNorm(v) == \A p \in DOMAIN v : v[p] = 0

\* C23: for any two of the vectors seriate was called with (equal dimension),
\* cosineDistance is a number of [0, 2], never NaN, and is exactly 1 when
\* either vector has zero norm.
C23_DistanceInRange ==
  spc # "call" =>
    \A i, j \in DOMAIN embeddings :
      LET d == cosineDistance(embeddings[i], embeddings[j])
      IN  /\ d.k = "fin"
          /\ ~Lt(d, Num(0)) /\ ~Lt(Num(2), d)
          /\ (ZeroNorm(embeddings[i]) \/ ZeroNorm(embeddings[j])) => Eq(d, Num(1))

\* C29: the while loop of seriate ends by its condition after n - 1
\* iterations (each appends one element, so the ordering returned has n), it
\* never ends by an exception, and whenever an iteration starts, visited is
\* the set of elements of order, order has no duplicates and current is the
\* last element of order.
C29_LoopInvariantAndTermination ==
  /\ spc # "threw"
  /\ spc = "loop" =>
        /\ visited = Elems(order)
        /\ Cardinality(Elems(order)) = Len(order)
        /\ current = order[Len(order)]
        /\ Len(order) <= Len(embeddings)
  /\ (spc = "returned" /\ Len(embeddings) >= 2) => Len(order) - 1 = Len(embeddings) - 1

(***************************************************************************)
(* Properties of the background script, under Spec.                        *)
(***************************************************************************)
Last(seq) == seq[Len(seq)]

Succeeded(r) == "done" \in Elems(status[r])

\* The number of messages of needEmbedding covered by the first k provider batches.
CoveredBy(r, k) ==
  IF k * EMBEDDING_BATCH_SIZE < Len(needEmbedding[r])
  THEN k * EMBEDDING_BATCH_SIZE ELSE Len(needEmbedding[r])

\* The run failed at provider batch k > 1: batches 1..k-1 were answered.
FailedAfterFirstBatch(r) ==
  pc[r] = "end" /\ phase[r] = "provider" /\ Len(requests[r]) >= 2

\* C3: when provider batch k > 1 of a run fails, the embeddings of batches
\* 1..k-1 are retrievable from the store (getEmbeddings returns them) once the
\* run has failed.
C3_CompletedBatchesRetrievable ==
  \A r \in Runs :
    FailedAfterFirstBatch(r) =>
      LET done == SubSeq(needEmbedding[r], 1, CoveredBy(r, Len(requests[r]) - 1))
          got  == getEmbeddings(store, messageIdsOf(done))
      IN  \A p \in DOMAIN done :
            /\ done[p].headerMessageId \in DOMAIN got
            /\ got[done[p].headerMessageId] # undefined

\* C4: a run issues the provider request of batch k + 1 only after the store
\* write of batch k has completed.
C4_WriteBeforeNextRequest ==
  [][\A r \in Runs :
       (Len(requests'[r]) > Len(requests[r]) /\ Len(requests'[r]) >= 2)
         => writes[r].state = "committed"]_vars

\* C5: once a run has reported "done", the store holds an embedding for every
\* item id of the run, and no write of the run is still pending.
C5_DoneImpliesStored ==
  \A r \in Runs :
    Succeeded(r) =>
      /\ writes[r].state # "pending"
      /\ \A p \in DOMAIN messages[r] : messages[r][p].headerMessageId \in DOMAIN store

\* A cache read of the run failed, or its cache write failed while it ran.
CacheFailed(r) ==
  phase[r] = "cacheRead" \/ (writes[r].state = "failed" /\ writes[r].during)

\* C6: a run in which a cache read or a cache write failed ends with an error
\* report, never with "done", and hands no rank map to the display.
C6_CacheFailureIsFatal ==
  \A r \in Runs :
    CacheFailed(r) =>
      /\ ~Succeeded(r)
      /\ pc[r] \notin {"ranksSet"}
      /\ pc[r] = "end" => Last(status[r]) = "error"

InFlight == { r \in Runs : pc[r] \notin {"idle", "end"} }

\* C7: at most one seriation run is in flight for the folder at any time.
C7_OneRunInFlight == Cardinality(InFlight) <= 1

RECURSIVE Flatten(_)
Flatten(seqs) == IF seqs = << >> THEN << >> ELSE seqs[1] \o Flatten(Tail(seqs))

IsPrefix(a, b) == Len(a) <= Len(b) /\ \A p \in DOMAIN a : a[p] = b[p]

\* The texts of the run's messages whose ids the store lacked at the lookup.
MissingTexts(r) ==
  LET missing == SelectSeq(messages[r],
                           LAMBDA m : m.headerMessageId \notin storeAtLookup[r])
  IN  [p \in DOMAIN missing |-> extractMessageText(missing[p])]

\* fetchEmbeddings has returned to the run.
FetchReturned(r) ==
  \/ pc[r] \in {"setRanks", "ranksSet"}
  \/ pc[r] = "end" /\ phase[r] \in {"", "seriate"}

\* C8: the texts a run sends to the provider are texts of items whose ids were
\* absent from the store at the lookup, in item order; once the fetch has
\* returned they are exactly those texts (none when every item was cached).
C8_ProviderGetsExactlyMissing ==
  \A r \in Runs :
    /\ IsPrefix(Flatten(requests[r]), MissingTexts(r))
    /\ FetchReturned(r) => Flatten(requests[r]) = MissingTexts(r)

\* A finished run that found an item cached and sent another to the provider.
C8_Witness ==
  \E r \in Runs :
    /\ Succeeded(r)
    /\ Len(requests[r]) >= 1
    /\ \E p \in DOMAIN messages[r] : messages[r][p].headerMessageId \in storeAtLookup[r]

\* C9: the rank map of a successful run over n items has exactly the submitted
\* ids as keys and exactly 1..n as values, each once, and maps the id of the
\* item at position p of the ordering to p + 1.
C9_RankMapIsBijection ==
  \A r \in Runs :
    Succeeded(r) =>
      LET ids == messageIdsOf(messages[r])
          n   == Len(ids)
          ord == seriate(embeddingArray[r]).order
          rk  == ranksArg(r)
      IN  /\ DOMAIN rk = Elems(ids)
          /\ Cardinality(DOMAIN rk) = n
          /\ { rk[k] : k \in DOMAIN rk } = 1..n
          /\ \A p \in DOMAIN ord : rk[keyAt(ids, ord[p])] = p

\* C10: the sequence passed to seriate has one defined vector per item, in item
\* order: element i is the embedding of items[i], the cached one when the id
\* was cached and the provider's for its text otherwise.
C10_EmbeddingArrayMatchesItems ==
  \A r \in Runs :
    Len(embeddingArray[r]) > 0 =>
      /\ Len(embeddingArray[r]) = Len(messages[r])
      /\ \A p \in DOMAIN messages[r] :
           LET id == messages[r][p].headerMessageId
           IN  /\ embeddingArray[r][p] # undefined
               /\ embeddingArray[r][p] =
                    IF id \in storeAtLookup[r] THEN cachedEmbeddings[r][id]
                    ELSE EmbeddingOf(extractMessageText(messages[r][p]))

\* fetchEmbeddings has returned its result to the run (line 156 resolved).
FetchResolved(r) == writes[r].state # "none"

\* C11: whenever fetchEmbeddings returns, its result has one embedding per input
\* text, in input order: element i is the embedding the provider produced for
\* texts[i], however the provider ordered the results of a batch.
C11_FetchAlignedWithTexts ==
  \A r \in Runs :
    FetchResolved(r) =>
      allEmbeddings[r] = [p \in DOMAIN texts[r] |-> EmbeddingOf(texts[r][p])]

\* The run ended in handleSeriate's catch block.
Failed(r) == phase[r] # ""

Count(seq, x) == Cardinality({ p \in DOMAIN seq : seq[p] = x })

\* C17: a run that fails, in whatever phase, reports one error, as its last
\* status message, and no "done"; it has not called setRanks; and the displayed
\* ranks change only in a setRanks step of a run that called it, so a failed
\* run leaves the ranks displayed before it as they were.
C17_FailedRunKeepsRanks ==
  /\ [](\A r \in Runs :
          Failed(r) =>
            /\ pc[r] = "end"
            /\ Count(status[r], "error") = 1 /\ Last(status[r]) = "error"
            /\ ~Succeeded(r)
            /\ "setRanks" \notin called[r])
  /\ [][columnRanks' # columnRanks =>
          \E q \in Runs :
            /\ "setRanks" \in called[q]
            /\ pc[q] = "setRanks" /\ pc'[q] = "ranksSet"
            /\ ~Failed(q)']_vars

\* A run failed at the provider while the ranks of an earlier run are displayed.
C17_Witness ==
  \E r \in Runs :
    /\ phase[r] = "provider"
    /\ columnRanks # EmptyMap

\* The run has listed the folder and found no message in it.
ListedNone(r) ==
  /\ pc[r] \notin {"idle", "getKey", "findTab", "list"}
  /\ phase[r] \notin {"config", "tab"}
  /\ Len(folder) = 0

\* C18: a run over zero items ends with an error report, never "done", and
\* has made no cache lookup, no provider request, no cache write and no
\* setRanks call.
C18_EmptyRunRejected ==
  \A r \in Runs :
    ListedNone(r) =>
      /\ pc[r] = "end" /\ phase[r] = "empty"
      /\ Last(status[r]) = "error" /\ ~Succeeded(r)
      /\ called[r] = {}
      /\ requests[r] = << >>
      /\ writes[r].state = "none"

\* A run ended on an empty folder.
C18_Witness == \E r \in Runs : ListedNone(r) /\ pc[r] = "end"

\* C19: a run that finds no API key fails with the configuration error as its
\* only status message, before any provider request, cache read or cache
\* write, and before the folder is listed.
C19_MissingKeyFailsFirst ==
  \A r \in Runs :
    phase[r] = "config" =>
      /\ pc[r] = "end"
      /\ status[r] = <<"error">>
      /\ called[r] = {}
      /\ requests[r] = << >>
      /\ writes[r].state = "none"
      /\ messages[r] = << >>

\* A run ended on a missing key while the folder holds messages.
C19_Witness == \E r \in Runs : phase[r] = "config" /\ Len(folder) > 0

\* C20: once a provider batch of a run has failed, the run has ended with an
\* error; the batches it sent are the consecutive batches up to the failed
\* one, each sent once; it has not called storeEmbeddings, seriate or
\* setRanks; and no later step sends a provider request or moves the run.
C20_NoRetryAfterProviderFailure ==
  /\ [](\A r \in Runs :
          phase[r] = "provider" =>
            /\ pc[r] = "end" /\ Last(status[r]) = "error"
            /\ Len(requests[r]) = (batchStart[r] \div EMBEDDING_BATCH_SIZE) + 1
            /\ IsPrefix(Flatten(requests[r]), texts[r])
            /\ called[r] \cap {"storeEmbeddings", "setRanks"} = {}
            /\ writes[r].state = "none"
            /\ embeddingArray[r] = << >>)
  /\ [][\A r \in Runs :
          phase[r] = "provider" =>
            /\ requests'[r] = requests[r]
            /\ pc'[r] = pc[r]
            /\ called'[r] = called[r]]_vars

\* A run whose second provider batch failed.
C20_Witness == \E r \in Runs : phase[r] = "provider" /\ Len(requests[r]) = 2

\* C21: every entry of the store holds a complete embedding vector: none is
\* undefined and none has fewer components than the provider's vectors, also
\* after a provider response with fewer results than texts.
C21_StoredVectorsComplete ==
  \A h \in DOMAIN store : store[h] # undefined /\ Len(store[h]) = 2

\* C25: no step changes or removes the embedding stored under an id: a run's
\* write leaves every entry that exists when it is made as it was, also when
\* runs overlap or two items share an id.
C25_ExistingEntriesKept ==
  [][\A h \in DOMAIN store : h \in DOMAIN store' /\ store'[h] = store[h]]_vars

\* C27: once cancellation was requested, the run sends no further provider
\* batch and does not start the seriation.
C27_CancelStopsRun ==
  [][cancelRequested =>
       /\ requests'[1] = requests[1]
       /\ embeddingArray'[1] = embeddingArray[1]]_vars

Terminal == {"done", "error"}

TerminalCount(r) == Count(status[r], "done") + Count(status[r], "error")

\* C28: a run sends at most one terminal status, "done" or "error"; a run
\* that has ended has sent exactly one, as its last status, and a run that has
\* not ended has sent none, so every "progress" comes before it; and "done" is
\* sent only by a run whose setRanks call has completed.
C28_OneTerminalStatus ==
  /\ [](\A r \in Runs :
          /\ TerminalCount(r) = (IF pc[r] = "end" THEN 1 ELSE 0)
          /\ pc[r] = "end" => Last(status[r]) \in Terminal
          /\ Succeeded(r) => "setRanks" \in called[r] /\ ~Failed(r))
  /\ [][\A r \in Runs :
          Count(status'[r], "done") # Count(status[r], "done") =>
            pc[r] = "ranksSet"]_vars

\* A run ended with "done" after progress messages, another with "error".
C28_Witness ==
  \E r, q \in Runs :
    /\ pc[r] = "end" /\ Succeeded(r) /\ Count(status[r], "progress") >= 2
    /\ pc[q] = "end" /\ Failed(q)

(***************************************************************************)
(* Properties of the embedding cache, under SpecStore.                     *)
(***************************************************************************)
DbCur == dbCalls[Len(dbCalls)]

DbPrev == dbCalls[1]

IdsOf(entries) == { entries[p].messageId : p \in DOMAIN entries }

DistinctIds(entries) ==
  \A p, q \in DOMAIN entries : entries[p].messageId = entries[q].messageId => p = q

\* The last two calls: storeEmbeddings(E) resolved, E with distinct ids, and
\* then getEmbeddings of the ids of E, in any listing, resolved.
RoundTrip ==
  /\ Len(dbCalls) = 2
  /\ DbPrev.op = "storeEmbeddings" /\ DbPrev.ok
  /\ DistinctIds(DbPrev.arg)
  /\ DbCur.op = "getEmbeddings" /\ DbCur.ok
  /\ Elems(DbCur.arg) = IdsOf(DbPrev.arg)

\* C12: storeEmbeddings(E), E with distinct ids, followed by getEmbeddings(ids
\* of E) returns the map with exactly the id -> embedding pairs of E, whatever
\* the order in which E lists its entries (the map depends on E's set of pairs).
C12_CacheRoundTrip ==
  RoundTrip =>
    /\ DOMAIN DbCur.result = IdsOf(DbPrev.arg)
    /\ \A p \in DOMAIN DbPrev.arg :
         DbCur.result[DbPrev.arg[p].messageId] = DbPrev.arg[p].embedding

\* A round trip of two entries listed against the order of their ids, with
\* different embeddings.
C12_Witness ==
  /\ RoundTrip
  /\ Len(DbPrev.arg) = 2
  /\ DbPrev.arg[1].messageId = "B"
  /\ DbPrev.arg[1].embedding # DbPrev.arg[2].embedding

\* The embedding of the last entry of E for id h is v.
LastWritten(E, h, v) ==
  \E p \in DOMAIN E :
    /\ E[p].messageId = h /\ E[p].embedding = v
    /\ \A q \in DOMAIN E : q > p => E[q].messageId # h

\* The last call is a storeEmbeddings that resolved.
Stored == Len(dbCalls) > 0 /\ DbCur.op = "storeEmbeddings" /\ DbCur.ok

\* C13: a storeEmbeddings(E) that resolves adds the ids of E that the store
\* lacked, replaces the embedding of those it held, leaves every other id's
\* entry as it was, and, made directly after a storeEmbeddings(E) of the same
\* entries, leaves the store as the first call left it.
C13_IdempotentUpsert ==
  [][Stored' =>
       LET E == DbCur'.arg
       IN  /\ DOMAIN store' = DOMAIN store \cup IdsOf(E)
           /\ \A h \in DOMAIN store \ IdsOf(E) : store'[h] = store[h]
           /\ \A h \in IdsOf(E) : LastWritten(E, h, store'[h])
           /\ (Stored /\ DbCur.arg = E) => store' = store]_vars

\* The same entries were stored twice in a row, two ids among them.
C13_Witness ==
  /\ Len(dbCalls) = 2
  /\ DbPrev.op = "storeEmbeddings" /\ DbPrev.ok
  /\ Stored
  /\ DbPrev.arg = DbCur.arg
  /\ Cardinality(IdsOf(DbCur.arg)) = 2

\* The last call is a getEmbeddings that resolved.
Looked == Len(dbCalls) > 0 /\ DbCur.op = "getEmbeddings" /\ DbCur.ok

\* The last call is a getEmbedding that resolved.
LookedOne == Len(dbCalls) > 0 /\ DbCur.op = "getEmbedding" /\ DbCur.ok

\* C14: getEmbeddings(ids) resolves with a map whose keys are exactly the
\* requested ids present in the store, each with its stored embedding (missing
\* ids are left out, they do not make the call fail), and a step of
\* getEmbeddings or of getEmbedding leaves the store as it was.
C14_LookupReturnsPresentOnly ==
  [][/\ Looked' =>
          /\ DOMAIN DbCur'.result = Elems(DbCur'.arg) \cap DOMAIN store
          /\ \A h \in DOMAIN DbCur'.result : DbCur'.result[h] = store[h]
     /\ LookedOne' =>
          DbCur'.result = IF DbCur'.arg \in DOMAIN store THEN store[DbCur'.arg] ELSE null
     /\ (Len(dbCalls') > 0 /\ DbCur'.op \in {"getEmbeddings", "getEmbedding"})
          => store' = store]_vars

\* A lookup of two ids resolved with one of them: the other is not stored.
C14_Witness ==
  /\ Looked
  /\ Cardinality(Elems(DbCur.arg)) = 2
  /\ Cardinality(DOMAIN DbCur.result) = 1

(***************************************************************************)
(* Properties of fetchEmbeddings, under SpecFetch.                         *)
(***************************************************************************)
\* The answers the loop of call 1 has received and processed.
Answered == batchStart[1] \div EMBEDDING_BATCH_SIZE

\* C24: fetchEmbeddings has at most one request outstanding (a request is sent
\* only when every earlier one was answered); request k carries the texts of
\* positions (k-1)*size+1 .. k*size of the input, between 1 and size of them;
\* a call that returns has sent ceil(t / size) requests, none for t = 0.
C24_BatchesSequentialAndContiguous ==
  LET t    == Len(texts[1])
      reqs == requests[1]
      size == EMBEDDING_BATCH_SIZE
  IN  /\ Len(reqs) - Answered = IF pc[1] \in {"fetch", "fetchThrew"} THEN 1 ELSE 0
      /\ \A k \in DOMAIN reqs :
           /\ Len(reqs[k]) \in 1..size
           /\ reqs[k] = SubSeq(texts[1], (k - 1) * size + 1,
                               IF k * size < t THEN k * size ELSE t)
      /\ pc[1] = "fetched" => Len(reqs) = (t + size - 1) \div size
      /\ (pc[1] # "idle" /\ t = 0) => pc[1] = "fetched" /\ reqs = << >>

\* A call over five texts returned after three requests.
C24_Witness == pc[1] = "fetched" /\ Len(texts[1]) = 5 /\ Len(requests[1]) = 3

(***************************************************************************)
(* Properties of the column, under SpecColumn.                             *)
(***************************************************************************)
ColCur == columnCalls[Len(columnCalls)]

ColPrev == columnCalls[1]

\* The last call is setRanks.
RanksSet == Len(columnCalls) > 0 /\ ColCur.op = "setRanks"

\* C26: after setRanks(r) the map of the column equals r: the ids of r with
\* their ranks and no other id, whatever was ranked before; and the sort key
\* of every id without a rank is greater than that of every ranked id.
C26_SetRanksReplaces ==
  /\ RanksSet =>
       /\ DOMAIN columnRanks = DOMAIN ColCur.arg
       /\ \A h \in DOMAIN columnRanks : columnRanks[h] = ColCur.arg[h]
  /\ \A u \in HeaderIds \ DOMAIN columnRanks :
       \A h \in DOMAIN columnRanks :
         sortCallback(columnRanks, u) > sortCallback(columnRanks, h)

\* Two setRanks calls in a row: the first ranked an id the second does not
\* rank, and the second ranks fewer ids than there are.
C26_Witness ==
  /\ Len(columnCalls) = 2
  /\ ColPrev.op = "setRanks" /\ RanksSet
  /\ DOMAIN ColPrev.arg \ DOMAIN ColCur.arg # {}
  /\ DOMAIN ColCur.arg # {}

=============================================================================
